---- MODULE Spec2Model ----
(***************************************************************************)
(* Model of the ping relay server (src/ping_server/server.py).            *)
(*                                                                         *)
(* The server is a single asyncio process: code between two `await`s runs  *)
(* atomically, and other handlers run only while a handler is suspended in *)
(* an await that performs channel I/O (accept, send_json, send_text,       *)
(* receive_text).  The store (SQLAlchemy over SQLite) is called            *)
(* synchronously, so every store call is part of the surrounding step.     *)
(* A channel write takes effect when it completes: the step that resumes   *)
(* the writer appends the frame to the channel or raises.                  *)
(***************************************************************************)
EXTENDS Integers, Sequences, FiniteSets, TLC

VARIABLES
    now,                 \* time.time(), in whole seconds
    requests_per_minute, \* RateLimiter.requests_per_minute
    user_counters,       \* RateLimiter.user_counters
    session_tokens,      \* table session_tokens (committed rows)
    pending_pings,       \* table pending_pings (committed rows, by id)
    active_connections,  \* ConnectionManager.active_connections (dict entries)
    ws,                  \* one websocket_endpoint handler per channel
    chan,                \* the client side of each channel
    frames,              \* what each channel has received from the server
    req,                 \* one send_user_ping request handler per request
    issued,              \* the answers of login_user so far
    allowed,             \* the last answer of check_rate_limit
    diag,                \* the last answer of /health or /clients
    cleanup_task,        \* the task startup_event created for perform_cleanup
    unswept_counters,    \* what user_counters would be had no sweep ever run
    client               \* one PingClient (src/ping_client/client.py)

vars == <<now, requests_per_minute, user_counters, session_tokens, pending_pings,
          active_connections, ws, chan, frames, req, issued, allowed,
          diag, cleanup_task, unswept_counters, client>>

----------------------------------------------------------------------------
(* Bounds of the model *)

MaxConns == 2
MaxPings == 2
MaxLogins == 1
MaxInbound == 1
MaxCloses == 1
MaxTimeConns == 1
MaxTimePings == 2
MaxCalls == 122
MaxOtherCalls == 1
TestLimit == 1
MaxDiagPings == 1
MaxStoreConns == 1
MaxStorePings == 2
MaxLoginCalls == 2
MaxExpiryPings == 1
MaxAttempts == 2
MaxSignals == 2
MaxClientTokens == 2

(* Program constants *)

TOKEN_EXPIRY_SECONDS == 3600
RATE_LIMIT_PER_MINUTE == 120
WINDOW_SECONDS == 60
STALE_SECONDS == 3600
POLICY_VIOLATION == 1008
LOGIN_ATTEMPTS == 4
EXPIRY_MARGIN == 5

Users == {"alice", "bob"}
NoUser == ""
Conns == 1..MaxConns
Pings == 1..MaxPings
NoConn == 0
NoToken == 0
\* The instants at which the clock is read: around the expiry of a token
\* issued at 0, and around the end of a rate window and the staleness of a
\* rate counter started at 0.
Instants == {0, TOKEN_EXPIRY_SECONDS, TOKEN_EXPIRY_SECONDS + 1}
RateInstants == {0, WINDOW_SECONDS, WINDOW_SECONDS + 1, STALE_SECONDS,
                 STALE_SECONDS + 1}

----------------------------------------------------------------------------
(* Python dict, as CPython keeps it: an entry array in insertion order in  *)
(* which a deleted key leaves a dead slot and a new key is appended.       *)

dict_live(d) == {i \in DOMAIN d : d[i].live}

\* Mutant: the slots of removed keys are counted too.
dict_len_slots(d) == Len(d)

dict_len(d) == Cardinality(dict_live(d))

dict_has(d, k) == \E i \in dict_live(d) : d[i].key = k

dict_get(d, k) ==
    IF dict_has(d, k) THEN d[CHOOSE i \in dict_live(d) : d[i].key = k].val
    ELSE NoConn

\* Mutant: a set of a key that is present adds a second entry.
dict_set_append(d, k, v) == Append(d, [key |-> k, val |-> v, live |-> TRUE])

dict_set(d, k, v) ==
    IF dict_has(d, k)
    THEN [i \in DOMAIN d |-> IF d[i].live /\ d[i].key = k
                             THEN [d[i] EXCEPT !.val = v] ELSE d[i]]
    ELSE Append(d, [key |-> k, val |-> v, live |-> TRUE])

dict_pop(d, k) ==
    [i \in DOMAIN d |-> IF d[i].live /\ d[i].key = k
                        THEN [d[i] EXCEPT !.live = FALSE] ELSE d[i]]

RECURSIVE dict_keys_from(_, _)
dict_keys_from(d, i) ==
    IF i > Len(d) THEN <<>>
    ELSE IF d[i].live THEN <<d[i].key>> \o dict_keys_from(d, i + 1)
    ELSE dict_keys_from(d, i + 1)

dict_keys(d) == dict_keys_from(d, 1)

\* The first live slot at or after i, Len(d) + 1 when there is none.
RECURSIVE dict_skip(_, _)
dict_skip(d, i) ==
    IF i > Len(d) \/ d[i].live THEN i ELSE dict_skip(d, i + 1)

\* next() of a dict item iterator (pos, used, len): an item, the end of the
\* iteration, or RuntimeError when the dict changed under the iterator.
dict_next(d, it) ==
    LET i == dict_skip(d, it.pos) IN
    IF it.used # dict_len(d) THEN [kind |-> "RuntimeError"]
    ELSE IF i > Len(d) THEN [kind |-> "StopIteration"]
    ELSE IF it.len = 0 THEN [kind |-> "RuntimeError"]
    ELSE [kind |-> "item", key |-> d[i].key, val |-> d[i].val,
          it |-> [pos |-> i + 1, used |-> it.used, len |-> it.len - 1]]

dict_iter(d) == [pos |-> 1, used |-> dict_len(d), len |-> dict_len(d)]

NoIter == [pos |-> 0, used |-> 0, len |-> 0]

----------------------------------------------------------------------------
(* ConnectionManager *)

\* Mutant: the oldest entry is removed, whoever it belongs to.
disconnect_oldest(conns, username) ==
    [i \in DOMAIN conns |-> IF i = dict_skip(conns, 1)
                            THEN [conns[i] EXCEPT !.live = FALSE] ELSE conns[i]]

\* Mutant: the identity stays registered.
disconnect_nothing(conns, username) == conns

disconnect(conns, username) == dict_pop(conns, username)

is_connected(conns, username) == dict_has(conns, username)

----------------------------------------------------------------------------
(* Frames the server sends *)

Frame(type, from, to, ts, id, clients) ==
    [type |-> type, from |-> from, to |-> to, ts |-> ts, id |-> id,
     clients |-> clients]

clientlist_frame(usernames) == Frame("clientlist", NoUser, NoUser, 0, 0, usernames)

ping_frame(from, to, ts) == Frame("ping", from, to, ts, 0, <<>>)

queued_ping_frame(ping) ==
    Frame("queued_ping", ping.from_username, ping.to_username, ping.ts, ping.id, <<>>)

pong_frame == Frame("pong", NoUser, NoUser, 0, 0, <<>>)

\* Mutant: the write also raises when the token that opened the channel is
\* no longer in the store.
send_ok_with_token(c) ==
    chan[c] = "open" /\ \E r \in session_tokens : r.token = ws[c].token

\* websocket.send_*: the write succeeds on an open channel and raises on a
\* closed one.
send_ok(c) == chan[c] = "open"

\* Mutant: the frame overtakes the frames sent before it.
deliver_front(fr, c, frame) == [fr EXCEPT ![c] = <<frame>> \o @]

deliver(fr, c, frame) == [fr EXCEPT ![c] = Append(@, frame)]

----------------------------------------------------------------------------
(* AuthenticationService *)

token_rows(tokens, token) == {r \in tokens : r.token = token}

\* Mutant: the token is dead at its expiry already.
validate_token_at_expiry(tokens, token, current_time) ==
    LET rows == token_rows(tokens, token) IN
    IF rows = {} THEN [username |-> NoUser, tokens |-> tokens]
    ELSE LET token_record == CHOOSE r \in rows : TRUE IN
         IF token_record.expiry <= current_time
         THEN [username |-> NoUser, tokens |-> tokens \ rows]
         ELSE [username |-> token_record.username, tokens |-> tokens]

\* Mutant: the expiry is not looked at.
validate_token_no_expiry(tokens, token, current_time) ==
    LET rows == token_rows(tokens, token) IN
    IF rows = {} THEN [username |-> NoUser, tokens |-> tokens]
    ELSE [username |-> (CHOOSE r \in rows : TRUE).username, tokens |-> tokens]

validate_token(tokens, token, current_time) ==
    LET rows == token_rows(tokens, token) IN
    IF rows = {} THEN [username |-> NoUser, tokens |-> tokens]
    ELSE LET token_record == CHOOSE r \in rows : TRUE IN
         IF token_record.expiry < current_time
         THEN [username |-> NoUser, tokens |-> tokens \ rows]
         ELSE [username |-> token_record.username, tokens |-> tokens]

----------------------------------------------------------------------------
(* RateLimiter *)

\* Mutant: the call that reaches the limit is rejected.
check_rate_limit_strict(counters, limit, username, current_time) ==
    LET user_counter == IF username \in DOMAIN counters THEN counters[username]
                        ELSE [count |-> 0, window_start |-> current_time]
        put(c) == [u \in DOMAIN counters \cup {username} |->
                       IF u = username THEN c ELSE counters[u]]
    IN  IF current_time - user_counter.window_start > WINDOW_SECONDS
        THEN [ok |-> TRUE,
              counters |-> put([count |-> 1, window_start |-> current_time])]
        ELSE [ok |-> user_counter.count + 1 < limit,
              counters |-> put([user_counter EXCEPT !.count = @ + 1])]

\* Mutant: the window is reset when exactly 60 seconds have elapsed.
check_rate_limit_reset_at_60(counters, limit, username, current_time) ==
    LET user_counter == IF username \in DOMAIN counters THEN counters[username]
                        ELSE [count |-> 0, window_start |-> current_time]
        put(c) == [u \in DOMAIN counters \cup {username} |->
                       IF u = username THEN c ELSE counters[u]]
    IN  IF current_time - user_counter.window_start >= WINDOW_SECONDS
        THEN [ok |-> TRUE,
              counters |-> put([count |-> 1, window_start |-> current_time])]
        ELSE [ok |-> user_counter.count + 1 <= limit,
              counters |-> put([user_counter EXCEPT !.count = @ + 1])]

\* Mutant: a rejected call is not counted.
check_rate_limit_uncounted(counters, limit, username, current_time) ==
    LET user_counter == IF username \in DOMAIN counters THEN counters[username]
                        ELSE [count |-> 0, window_start |-> current_time]
        put(c) == [u \in DOMAIN counters \cup {username} |->
                       IF u = username THEN c ELSE counters[u]]
    IN  IF current_time - user_counter.window_start > WINDOW_SECONDS
        THEN [ok |-> TRUE,
              counters |-> put([count |-> 1, window_start |-> current_time])]
        ELSE IF user_counter.count + 1 <= limit
        THEN [ok |-> TRUE, counters |-> put([user_counter EXCEPT !.count = @ + 1])]
        ELSE [ok |-> FALSE, counters |-> put(user_counter)]

check_rate_limit(counters, limit, username, current_time) ==
    LET user_counter == IF username \in DOMAIN counters THEN counters[username]
                        ELSE [count |-> 0, window_start |-> current_time]
        put(c) == [u \in DOMAIN counters \cup {username} |->
                       IF u = username THEN c ELSE counters[u]]
    IN  IF current_time - user_counter.window_start > WINDOW_SECONDS
        THEN [ok |-> TRUE,
              counters |-> put([count |-> 1, window_start |-> current_time])]
        ELSE [ok |-> user_counter.count + 1 <= limit,
              counters |-> put([user_counter EXCEPT !.count = @ + 1])]

\* Mutant: the sweep removes the counters that are a window old, the ones
\* whose window is in its last second included.
cleanup_old_counters_at_window(counters, current_time) ==
    LET stale_users == {u \in DOMAIN counters :
                           current_time - counters[u].window_start >= WINDOW_SECONDS}
    IN  [u \in DOMAIN counters \ stale_users |-> counters[u]]

\* Mutant: a counter whose window started exactly 3600 seconds ago is
\* removed too.
cleanup_old_counters_at_3600(counters, current_time) ==
    LET stale_users == {u \in DOMAIN counters :
                           current_time - counters[u].window_start >= STALE_SECONDS}
    IN  [u \in DOMAIN counters \ stale_users |-> counters[u]]

cleanup_old_counters(counters, current_time) ==
    LET stale_users == {u \in DOMAIN counters :
                           current_time - counters[u].window_start > STALE_SECONDS}
    IN  [u \in DOMAIN counters \ stale_users |-> counters[u]]

----------------------------------------------------------------------------
(* PingService *)

\* Mutant: the record is stored as delivered whatever the live send did.
_store_ping_record_delivered(pings, from_username, to_username, timestamp, delivered) ==
    Append(pings, [id |-> Len(pings) + 1, to_username |-> to_username,
                   from_username |-> from_username, ts |-> timestamp,
                   delivered |-> TRUE])

\* Mutant: the record is stored as queued whatever the live send did.
_store_ping_record_queued(pings, from_username, to_username, timestamp, delivered) ==
    Append(pings, [id |-> Len(pings) + 1, to_username |-> to_username,
                   from_username |-> from_username, ts |-> timestamp,
                   delivered |-> FALSE])

_store_ping_record(pings, from_username, to_username, timestamp, delivered) ==
    Append(pings, [id |-> Len(pings) + 1, to_username |-> to_username,
                   from_username |-> from_username, ts |-> timestamp,
                   delivered |-> delivered])

\* select(PendingPing).where(to_username == username, delivered == False)
\*     .order_by(PendingPing.id): the ids, in increasing order.
RECURSIVE select_pending_from(_, _, _)
select_pending_from(pings, username, i) ==
    IF i > Len(pings) THEN <<>>
    ELSE IF pings[i].to_username = username /\ ~pings[i].delivered
         THEN <<i>> \o select_pending_from(pings, username, i + 1)
         ELSE select_pending_from(pings, username, i + 1)

select_pending(pings, username) == select_pending_from(pings, username, 1)

\* Mutant: the session ends without committing its UPDATEs.
commit_nothing(pings, marked) == pings

\* db_session.commit() of deliver_queued_pings: the UPDATEs of the session
\* become visible to the other sessions.
commit_delivered(pings, marked) ==
    [i \in DOMAIN pings |-> IF i \in marked THEN [pings[i] EXCEPT !.delivered = TRUE]
                            ELSE pings[i]]

----------------------------------------------------------------------------
(* websocket_endpoint: the handler of one channel *)

NewHandler ==
    [pc |-> "new", token |-> NoToken, username |-> NoUser, target |-> NoConn,
     item |-> NoUser,
     names |-> <<>>, it |-> NoIter, list |-> <<>>, marked |-> {},
     inbound |-> 0, close |-> 0]

\* The handler is over: nothing of its frame is left.
ended(h, pc) ==
    [h EXCEPT !.pc = pc, !.target = NoConn, !.item = NoUser, !.names = <<>>,
              !.it = NoIter, !.list = <<>>, !.marked = {}]

\* What the store does in the calls of one step: st.select, st.update and
\* st.commit tell whether the call succeeds or raises.
StoreOk == [select |-> TRUE, update |-> TRUE, commit |-> TRUE]

StoreOutcomes == [select : BOOLEAN, update : BOOLEAN, commit : BOOLEAN]

\* An exception leaves deliver_queued_pings inside the try of
\* websocket_endpoint: the finally clause unregisters the identity and the
\* handler ends; the session is rolled back.
replay_raises(h, conns, pings) ==
    [ws |-> ended(h, "failed"), pings |-> pings,
     conns |-> disconnect(conns, h.username)]

\* The loop of deliver_queued_pings up to its next await: a registered
\* identity suspends in send_json, an unregistered one gets False for every
\* remaining record without suspending, and the session commits at the end.
replay_next(h, conns, pings, st) ==
    IF h.list # <<>> /\ dict_has(conns, h.username)
    THEN [ws |-> [h EXCEPT !.pc = "replay", !.target = dict_get(conns, h.username)],
          pings |-> pings, conns |-> conns]
    ELSE IF st.commit
    THEN [ws |-> [h EXCEPT !.pc = "recv", !.target = NoConn, !.list = <<>>,
                           !.marked = {}],
          pings |-> commit_delivered(pings, h.marked), conns |-> conns]
    ELSE replay_raises(h, conns, pings)

enter_replay(h, conns, pings, st) ==
    IF st.select
    THEN replay_next([h EXCEPT !.item = NoUser, !.names = <<>>, !.it = NoIter,
                              !.list = select_pending(pings, h.username),
                              !.marked = {}],
                     conns, pings, st)
    ELSE replay_raises(h, conns, pings)

\* The loop of send_connected_clients up to its next await.  A RuntimeError
\* of the iterator is raised outside the try and leaves connect and the
\* handler, which has not entered its try/finally yet.
bcast_next(h, conns, pings, st) ==
    LET n == dict_next(conns, h.it) IN
    CASE n.kind = "RuntimeError" ->
            [ws |-> ended(h, "failed"), pings |-> pings, conns |-> conns]
      [] n.kind = "StopIteration" -> enter_replay(h, conns, pings, st)
      [] n.kind = "item" ->
            [ws |-> [h EXCEPT !.pc = "bcast", !.item = n.key, !.target = n.val,
                              !.it = n.it],
             pings |-> pings, conns |-> conns]

\* A handler that ended has its channel closed by the server.
chan_after(c, h) ==
    IF h.pc \in {"failed", "done", "closed"} /\ chan[c] = "open"
    THEN [chan EXCEPT ![c] = "ended"] ELSE chan

websocket_endpoint(c, token) ==
    /\ ws[c].pc = "new"
    /\ c > 1 => ws[c - 1].pc # "new"
    /\ LET v == IF token = NoToken THEN [username |-> NoUser, tokens |-> session_tokens]
                ELSE validate_token(session_tokens, token, now)
           h == IF v.username = NoUser
                THEN [ws[c] EXCEPT !.pc = "closed", !.token = token,
                                   !.close = POLICY_VIOLATION]
                ELSE [ws[c] EXCEPT !.pc = "accept", !.token = token,
                                   !.username = v.username]
       IN  /\ session_tokens' = v.tokens
           /\ ws' = [ws EXCEPT ![c] = h]
           /\ chan' = chan_after(c, h)
    /\ UNCHANGED <<now, requests_per_minute, user_counters, pending_pings,
                   active_connections, frames, req, issued, allowed,
                   diag, cleanup_task,
                   unswept_counters, client>>

\* ConnectionManager.connect after websocket.accept() returned.
connect(c, st) ==
    /\ ws[c].pc = "accept"
    /\ LET conns == dict_set(active_connections, ws[c].username, c)
           h0 == [ws[c] EXCEPT !.names = dict_keys(conns), !.it = dict_iter(conns)]
           r == IF send_ok(c) THEN bcast_next(h0, conns, pending_pings, st)
                ELSE [ws |-> ended(ws[c], "failed"), pings |-> pending_pings,
                      conns |-> active_connections]
       IN  /\ active_connections' = r.conns
           /\ ws' = [ws EXCEPT ![c] = r.ws]
           /\ pending_pings' = r.pings
           /\ chan' = chan_after(c, r.ws)
    /\ UNCHANGED <<now, requests_per_minute, user_counters, session_tokens,
                   frames, req, issued, allowed, diag, cleanup_task,
                   unswept_counters, client>>

\* send_connected_clients resumed from websocket.send_json.
send_connected_clients(c, st) ==
    /\ ws[c].pc = "bcast"
    /\ \E exc \in {"RuntimeError", "Other"} :
         LET t == ws[c].target
             conns == IF send_ok(t) THEN active_connections
                      ELSE disconnect(active_connections, ws[c].item)
             r == IF send_ok(t) \/ exc = "RuntimeError"
                  THEN bcast_next(ws[c], conns, pending_pings, st)
                  ELSE [ws |-> ended(ws[c], "failed"), pings |-> pending_pings,
                        conns |-> active_connections]
         IN  /\ frames' = IF send_ok(t)
                          THEN deliver(frames, t, clientlist_frame(ws[c].names))
                          ELSE frames
             /\ active_connections' = r.conns
             /\ ws' = [ws EXCEPT ![c] = r.ws]
             /\ pending_pings' = r.pings
             /\ chan' = chan_after(c, r.ws)
    /\ UNCHANGED <<now, requests_per_minute, user_counters, session_tokens,
                   req, issued, allowed, diag, cleanup_task,
                   unswept_counters, client>>

\* deliver_queued_pings resumed from send_personal_message.
\* A failing UPDATE is swallowed by the `except Exception: pass` of the loop.
deliver_queued_pings(c, st) ==
    /\ ws[c].pc = "replay"
    /\ LET t == ws[c].target
           id == Head(ws[c].list)
           conns == IF send_ok(t) THEN active_connections
                    ELSE disconnect(active_connections, ws[c].username)
           h == [ws[c] EXCEPT !.list = Tail(@),
                              !.marked = IF send_ok(t) /\ st.update
                                         THEN @ \cup {id} ELSE @]
           r == replay_next(h, conns, pending_pings, st)
       IN  /\ frames' = IF send_ok(t)
                        THEN deliver(frames, t, queued_ping_frame(pending_pings[id]))
                        ELSE frames
           /\ active_connections' = r.conns
           /\ ws' = [ws EXCEPT ![c] = r.ws]
           /\ pending_pings' = r.pings
           /\ chan' = chan_after(c, r.ws)
    /\ UNCHANGED <<now, requests_per_minute, user_counters, session_tokens,
                   req, issued, allowed, diag, cleanup_task,
                   unswept_counters, client>>

\* Mutant: the receive loop runs while the replay is still going on.
receive_text_during_replay(c) ==
    /\ ws[c].pc \in {"recv", "replay"}
    /\ chan[c] = "open"
    /\ Cardinality({d \in Conns : ws[d].inbound > 0}) < MaxInbound
    /\ IF ws[c].pc = "recv"
       THEN /\ ws' = [ws EXCEPT ![c].pc = "pong", ![c].inbound = @ + 1]
            /\ UNCHANGED frames
       ELSE /\ ws' = [ws EXCEPT ![c].inbound = @ + 1]
            /\ frames' = [frames EXCEPT ![c] = Append(@, pong_frame)]
    /\ UNCHANGED <<now, requests_per_minute, user_counters, session_tokens,
                   pending_pings, active_connections, chan, req, issued,
                   allowed, diag, cleanup_task,
                   unswept_counters, client>>

\* The receive loop: an inbound "ping" is answered with "pong".
receive_text(c) ==
    /\ ws[c].pc = "recv"
    /\ chan[c] = "open"
    /\ Cardinality({d \in Conns : ws[d].inbound > 0}) < MaxInbound
    /\ ws' = [ws EXCEPT ![c].pc = "pong", ![c].inbound = @ + 1]
    /\ UNCHANGED <<now, requests_per_minute, user_counters, session_tokens,
                   pending_pings, active_connections, chan, frames, req, issued,
                   allowed, diag, cleanup_task,
                   unswept_counters, client>>

\* Mutant: the unregistration broadcasts the new presence snapshot.
receive_disconnect_broadcast(c) ==
    /\ ws[c].pc = "recv"
    /\ chan[c] = "closed"
    /\ ws' = [ws EXCEPT ![c] = ended(@, "done")]
    /\ active_connections' = disconnect(active_connections, ws[c].username)
    /\ frames' = [d \in Conns |->
                     IF d \in {active_connections'[i].val :
                                  i \in dict_live(active_connections')}
                        /\ send_ok(d)
                     THEN Append(frames[d],
                                 clientlist_frame(dict_keys(active_connections')))
                     ELSE frames[d]]
    /\ UNCHANGED <<now, requests_per_minute, user_counters, session_tokens,
                   pending_pings, chan, req, issued, allowed, diag, cleanup_task,
                   unswept_counters, client>>

\* receive_text raises WebSocketDisconnect: break, then the finally clause.
receive_disconnect(c) ==
    /\ ws[c].pc = "recv"
    /\ chan[c] = "closed"
    /\ ws' = [ws EXCEPT ![c] = ended(@, "done")]
    /\ active_connections' = disconnect(active_connections, ws[c].username)
    /\ UNCHANGED <<now, requests_per_minute, user_counters, session_tokens,
                   pending_pings, chan, frames, req, issued, allowed,
                   diag, cleanup_task,
                   unswept_counters, client>>

\* send_text("pong") resumed: back to the loop, or out through the finally.
send_pong(c) ==
    /\ ws[c].pc = "pong"
    /\ IF send_ok(c)
       THEN /\ frames' = deliver(frames, c, pong_frame)
            /\ ws' = [ws EXCEPT ![c].pc = "recv"]
            /\ UNCHANGED active_connections
       ELSE /\ ws' = [ws EXCEPT ![c] = ended(@, "done")]
            /\ active_connections' = disconnect(active_connections, ws[c].username)
            /\ UNCHANGED frames
    /\ UNCHANGED <<now, requests_per_minute, user_counters, session_tokens,
                   pending_pings, chan, req, issued, allowed, diag, cleanup_task,
                   unswept_counters, client>>

\* The client closes its channel (or the connection is lost).
client_close(c) ==
    /\ ws[c].pc \in {"accept", "bcast", "replay", "recv", "pong"}
    /\ chan[c] = "open"
    /\ Cardinality({d \in Conns : chan[d] = "closed"}) < MaxCloses
    /\ chan' = [chan EXCEPT ![c] = "closed"]
    /\ UNCHANGED <<now, requests_per_minute, user_counters, session_tokens,
                   pending_pings, active_connections, ws, frames, req, issued,
                   allowed, diag, cleanup_task,
                   unswept_counters, client>>

----------------------------------------------------------------------------
(* send_user_ping: the handler of one ping request *)

NewRequest ==
    [pc |-> "new", token |-> NoToken, to |-> NoUser, from |-> NoUser, ts |-> 0,
     target |-> NoConn, status |-> 0, result |-> "", target_online |-> FALSE]

answer(r, status, result, online) ==
    [r EXCEPT !.pc = "done", !.status = status, !.result = result,
              !.target_online = online]

\* Mutant: a failed live send is answered as delivered.
ping_response_delivered(r, delivered) == answer(r, 200, "delivered", TRUE)

\* Mutant: a failed live send is surfaced to the sender as a server error.
ping_response_raises(r, delivered) ==
    IF delivered THEN answer(r, 200, "delivered", TRUE)
    ELSE answer(r, 500, "", FALSE)

\* Mutant: a ping that was queued is answered as rejected by the limiter.
ping_response_rejected(r, delivered) ==
    IF delivered THEN answer(r, 200, "delivered", TRUE)
    ELSE answer(r, 429, "", FALSE)

\* The end of send_ping and of send_user_ping: the record is stored with
\* the outcome of the live send, and the answer is 200 or 202.
ping_response(r, delivered) ==
    IF delivered THEN answer(r, 200, "delivered", TRUE)
    ELSE answer(r, 202, "queued", FALSE)

\* _store_ping_record raised: nothing catches the exception in send_ping or
\* send_user_ping, and the framework answers 500.
store_raises(r) == answer(r, 500, "", FALSE)

\* get_current_user, the checks of send_user_ping and send_ping up to the
\* await of send_personal_message; store_ok tells whether
\* _store_ping_record succeeds.
send_user_ping(p, token, to, store_ok) ==
    /\ req[p].pc = "new"
    /\ p > 1 => req[p - 1].pc # "new"
    /\ LET v == IF token = NoToken THEN [username |-> NoUser, tokens |-> session_tokens]
                ELSE validate_token(session_tokens, token, now)
           r0 == [req[p] EXCEPT !.token = token, !.to = to, !.from = v.username,
                               !.ts = now]
           rl == check_rate_limit(user_counters, requests_per_minute, v.username, now)
           target == dict_get(active_connections, to)
       IN  /\ session_tokens' = v.tokens
           /\ IF v.username = NoUser
              THEN /\ req' = [req EXCEPT ![p] = answer(r0, 401, "", FALSE)]
                   /\ UNCHANGED <<user_counters, allowed, pending_pings,
                                  unswept_counters, client>>
              ELSE IF to = NoUser
              THEN /\ req' = [req EXCEPT ![p] = answer(r0, 400, "", FALSE)]
                   /\ UNCHANGED <<user_counters, allowed, pending_pings,
                                  unswept_counters, client>>
              ELSE /\ user_counters' = rl.counters
                   /\ allowed' = rl.ok
                   /\ unswept_counters' =
                         check_rate_limit(unswept_counters, requests_per_minute,
                                          v.username, now).counters
                   /\ IF ~rl.ok
                      THEN /\ req' = [req EXCEPT ![p] = answer(r0, 429, "", FALSE)]
                           /\ UNCHANGED pending_pings
                      ELSE IF target = NoConn /\ store_ok
                      THEN /\ req' = [req EXCEPT
                                        ![p] = ping_response(r0, FALSE)]
                           /\ pending_pings' = _store_ping_record(
                                  pending_pings, v.username, to, now, FALSE)
                      ELSE IF target = NoConn
                      THEN /\ req' = [req EXCEPT ![p] = store_raises(r0)]
                           /\ UNCHANGED pending_pings
                      ELSE /\ req' = [req EXCEPT ![p] = [r0 EXCEPT !.pc = "sending",
                                                          !.target = target]]
                           /\ UNCHANGED pending_pings
    /\ UNCHANGED <<now, requests_per_minute, active_connections, ws, chan, frames,
                   issued, diag, cleanup_task, client>>

\* send_ping resumed from send_personal_message.
send_ping(p, store_ok) ==
    /\ req[p].pc = "sending"
    /\ LET r == req[p]
           delivered == send_ok(r.target)
       IN  /\ frames' = IF delivered
                        THEN deliver(frames, r.target, ping_frame(r.from, r.to, r.ts))
                        ELSE frames
           /\ active_connections' = IF delivered THEN active_connections
                                    ELSE disconnect(active_connections, r.to)
           /\ pending_pings' = IF store_ok
                               THEN _store_ping_record(pending_pings, r.from, r.to,
                                                       r.ts, delivered)
                               ELSE pending_pings
           /\ req' = [req EXCEPT ![p] = IF store_ok THEN ping_response(r, delivered)
                                        ELSE store_raises(r)]
    /\ UNCHANGED <<now, requests_per_minute, user_counters, session_tokens, ws,
                   chan, issued, allowed, diag, cleanup_task,
                   unswept_counters, client>>

----------------------------------------------------------------------------
(* login_user *)

\* generate_token: a token nobody holds yet.
generate_token(answers) == Len(answers) + 1

\* Mutant: a username that is not a string is accepted.
valid_username_any_type(username, is_str) == username # NoUser

\* `username and isinstance(username, str)`: NoUser stands for a missing or
\* empty (falsy) username, is_str for the type of the value.
valid_username(username, is_str) == username # NoUser /\ is_str

\* Mutant: a login ends the earlier sessions of the identity.
add_replacing(tokens, token, username, expiry_time) ==
    {r \in tokens : r.username # username}
        \cup {[token |-> token, username |-> username, expiry |-> expiry_time]}

\* db_session.add(SessionToken(...)) and commit: one more row, the others
\* untouched.
add(tokens, token, username, expiry_time) ==
    tokens \cup {[token |-> token, username |-> username, expiry |-> expiry_time]}

login_user(username, is_str) ==
    /\ IF ~valid_username(username, is_str)
       THEN /\ issued' = Append(issued, [status |-> 400, token |-> NoToken,
                                         username |-> username, is_str |-> is_str,
                                         expiry |-> 0, expires_in |-> 0])
            /\ UNCHANGED session_tokens
       ELSE LET token == generate_token(issued)
                expiry_time == now + TOKEN_EXPIRY_SECONDS
            IN  /\ session_tokens' = add(session_tokens, token, username,
                                          expiry_time)
                /\ issued' = Append(issued, [status |-> 200, token |-> token,
                                             username |-> username,
                                             is_str |-> is_str,
                                             expiry |-> expiry_time,
                                             expires_in |-> TOKEN_EXPIRY_SECONDS])
    /\ UNCHANGED <<now, requests_per_minute, user_counters, pending_pings,
                   active_connections, ws, chan, frames, req, allowed,
                   diag, cleanup_task,
                   unswept_counters, client>>

----------------------------------------------------------------------------
(* /health and /clients *)

Diag(kind, status, connected_users, queued_pings, active_sessions, usernames) ==
    [kind |-> kind, status |-> status, connected_users |-> connected_users,
     queued_pings |-> queued_pings, active_sessions |-> active_sessions,
     usernames |-> usernames]

NoDiag == Diag("", "", 0, 0, 0, <<>>)

health_check ==
    /\ diag = NoDiag
    /\ LET queued_count == Cardinality({i \in DOMAIN pending_pings :
                                           ~pending_pings[i].delivered})
           session_count == Cardinality(session_tokens)
       IN  diag' = Diag("health", "healthy", dict_len(active_connections),
                        queued_count, session_count, <<>>)
    /\ UNCHANGED <<now, requests_per_minute, user_counters, session_tokens,
                   pending_pings, active_connections, ws, chan, frames, req, issued,
                   allowed, cleanup_task,
                   unswept_counters, client>>

\* GET /clients
root ==
    /\ diag = NoDiag
    /\ diag' = Diag("clients", "", 0, 0, 0, dict_keys(active_connections))
    /\ UNCHANGED <<now, requests_per_minute, user_counters, session_tokens,
                   pending_pings, active_connections, ws, chan, frames, req, issued,
                   allowed, cleanup_task,
                   unswept_counters, client>>

----------------------------------------------------------------------------
(* perform_cleanup: one cycle of the maintenance loop *)

\* Mutant: the sweep deletes every token.
delete_all(tokens, current_time) == {}

\* Mutant: the sweep deletes the tokens that expire now as well.
delete_expired_at_expiry(tokens, current_time) ==
    {r \in tokens : ~(r.expiry <= current_time)}

delete_expired(tokens, current_time) == {r \in tokens : ~(r.expiry < current_time)}

\* Mutant: an exception of the store ends the task.
on_store_failure_raise(task) == "dead"

\* `except Exception: pass`: the task goes on.
on_store_failure(task) == task

\* One cycle; store_ok tells whether the store does its part or raises.
perform_cleanup(store_ok) ==
    /\ cleanup_task = "running"
    /\ session_tokens' = IF store_ok THEN delete_expired(session_tokens, now)
                         ELSE session_tokens
    /\ cleanup_task' = IF store_ok THEN cleanup_task
                       ELSE on_store_failure(cleanup_task)
    /\ user_counters' = IF cleanup_task' = "running"
                        THEN cleanup_old_counters(user_counters, now)
                        ELSE user_counters
    /\ UNCHANGED <<now, requests_per_minute, pending_pings, active_connections, ws,
                   chan, frames, req, issued, allowed, diag, unswept_counters, client>>

----------------------------------------------------------------------------
(* PingClient: the client's token and its channel loop.  The servers it    *)
(* talks to are its environment: every request and every channel operation *)
(* returns one of the outcomes the libraries can give.                     *)

ClientTokens == 1..MaxClientTokens

\* The instants at which the client reads its clock: around the local
\* expiry of a token obtained at 0.
ClientInstants ==
    {0, TOKEN_EXPIRY_SECONDS - EXPIRY_MARGIN - 1, TOKEN_EXPIRY_SECONDS - EXPIRY_MARGIN,
     TOKEN_EXPIRY_SECONDS - EXPIRY_MARGIN + 1}

\* PingClient.__init__; pc "idle" is the client before start().
NewClient ==
    [pc |-> "idle", caller |-> "start", token |-> NoToken, token_expiry |-> 0,
     tries |-> 0, attempt |-> 0, stop |-> FALSE, signals |-> <<>>]

\* A signal of gui_signals is emitted; the model keeps the last ones.
emit(signals, s) ==
    LET a == Append(signals, s) IN IF Len(a) > MaxSignals THEN Tail(a) ELSE a

\* Mutant: the token is used until its local expiry has passed.
token_held_through_expiry(cl, t) == cl.token # NoToken /\ ~(t > cl.token_expiry)

\* The negation of the test of ensure_token:
\* `not self.token or time.time() >= self.token_expiry`.
token_held(cl, t) == cl.token # NoToken /\ ~(t >= cl.token_expiry)

\* PingClient.login with a good answer of the server.
login(cl, token, t) ==
    [cl EXCEPT !.token = token,
               !.token_expiry = t + TOKEN_EXPIRY_SECONDS - EXPIRY_MARGIN]

\* Mutant: an exception in the channel loop ends the loop.
ws_failed_gives_up(cl) ==
    [cl EXCEPT !.pc = "stopped", !.tries = 0,
               !.signals = emit(@, "ws_disconnected")]

\* `except Exception` of _ws_run: the signal, the counter, and the sleep.
ws_failed(cl) ==
    [cl EXCEPT !.pc = "sleep", !.tries = 0, !.attempt = @ + 1,
               !.signals = emit(@, "ws_disconnected")]

\* start() goes on after its ensure_token, whatever it did: the stop event
\* is cleared and the thread of _ws_run is started.
thread_start(cl) ==
    [cl EXCEPT !.pc = "top", !.caller = "ws", !.tries = 0, !.stop = FALSE]

\* ensure_token returns the token to its caller.
returned(cl) ==
    IF cl.caller = "start" THEN thread_start(cl)
    ELSE [cl EXCEPT !.pc = "connect", !.tries = 0]

\* ensure_token raises into its caller.
raised(cl) == IF cl.caller = "start" THEN thread_start(cl) ELSE ws_failed(cl)

\* The call of ensure_token up to its first request.
call_ensure_token(cl, caller, t) ==
    IF token_held(cl, t) THEN returned([cl EXCEPT !.caller = caller])
    ELSE [cl EXCEPT !.pc = "login", !.caller = caller, !.tries = 0]

\* The test of the inner loop of _ws_run; leaving it leaves `async with`,
\* which closes the channel, and goes back to the test of the outer loop.
inner_loop(cl) ==
    IF cl.stop THEN [cl EXCEPT !.pc = "top"] ELSE [cl EXCEPT !.pc = "recv"]

\* `break` out of the inner loop: the block of `async with` ends normally.
closed(cl) == [cl EXCEPT !.pc = "top"]

server_unchanged ==
    UNCHANGED <<requests_per_minute, user_counters, session_tokens, pending_pings,
                active_connections, ws, chan, frames, req, issued, allowed,
                diag, cleanup_task, unswept_counters>>

client_step(cl) ==
    /\ cl.attempt <= MaxAttempts
    /\ client' = cl
    /\ UNCHANGED now
    /\ server_unchanged

start ==
    /\ client.pc = "idle"
    /\ client_step(call_ensure_token(client, "start", now))

\* One pass of the loop of ensure_token: a login request and its outcome.
ensure_token ==
    /\ client.pc = "login"
    /\ \E outcome \in {"ok", "RequestException", "Exception"},
          token \in ClientTokens :
          client_step(
            CASE outcome = "ok" -> returned(login(client, token, now))
              [] outcome = "RequestException" ->
                    IF client.tries + 1 < LOGIN_ATTEMPTS
                    THEN [client EXCEPT !.tries = @ + 1]
                    ELSE raised(client)
              [] outcome = "Exception" -> raised(client))

\* The test of the outer loop of _ws_run and the call of ensure_token.
_ws_run ==
    /\ client.pc = "top"
    /\ client_step(IF client.stop THEN [client EXCEPT !.pc = "stopped"]
                   ELSE call_ensure_token(client, "ws", now))

\* websockets.connect returns or raises.
ws_connect ==
    /\ client.pc = "connect"
    /\ \E ok \in BOOLEAN :
          client_step(
            IF ok
            THEN inner_loop([client EXCEPT !.attempt = 0,
                                           !.signals = emit(@, "ws_connected")])
            ELSE ws_failed(client))

\* ws.recv under wait_for returns a frame, times out, finds the channel
\* closed, or the handling of the frame raises.
ws_recv ==
    /\ client.pc = "recv"
    /\ \E outcome \in {"frame", "TimeoutError", "ConnectionClosed", "Exception"} :
          client_step(
            CASE outcome = "frame" -> inner_loop(client)
              [] outcome = "TimeoutError" -> [client EXCEPT !.pc = "keepalive"]
              [] outcome = "ConnectionClosed" -> closed(client)
              [] outcome = "Exception" -> ws_failed(client))

\* ws.send("keepalive") returns or raises.
ws_send ==
    /\ client.pc = "keepalive"
    /\ \E ok \in BOOLEAN :
          client_step(IF ok THEN inner_loop(client) ELSE closed(client))

\* asyncio.sleep of the backoff is over.
backoff ==
    /\ client.pc = "sleep"
    /\ client_step([client EXCEPT !.pc = "top"])

stop ==
    /\ client.pc \notin {"idle", "stopped"}
    /\ ~client.stop
    /\ client_step([client EXCEPT !.stop = TRUE])

----------------------------------------------------------------------------
(* The clock *)

Tick(instants) ==
    /\ \E t \in instants : t > now /\ now' = t
    /\ UNCHANGED <<requests_per_minute, user_counters, session_tokens, pending_pings,
                   active_connections, ws, chan, frames, req, issued, allowed,
                   diag, cleanup_task,
                   unswept_counters, client>>

----------------------------------------------------------------------------
(* The server once alice and bob have logged in, started with a small     *)
(* rate limit; the clock stands still.                                    *)

Fresh ==
    /\ now = 0
    /\ user_counters = <<>>
    /\ allowed = TRUE
    /\ pending_pings = <<>>
    /\ active_connections = <<>>
    /\ ws = [c \in Conns |-> NewHandler]
    /\ chan = [c \in Conns |-> "open"]
    /\ frames = [c \in Conns |-> <<>>]
    /\ req = [p \in Pings |-> NewRequest]
    /\ diag = NoDiag
    /\ cleanup_task = "running"
    /\ unswept_counters = <<>>
    /\ client = NewClient

login_answer(token, username, expiry_time) ==
    [status |-> 200, token |-> token, username |-> username, is_str |-> TRUE,
     expiry |-> expiry_time, expires_in |-> TOKEN_EXPIRY_SECONDS]

token_row(token, username, expiry_time) ==
    [token |-> token, username |-> username, expiry |-> expiry_time]

Init ==
    /\ Fresh
    /\ requests_per_minute = TestLimit
    /\ session_tokens = {token_row(1, "alice", TOKEN_EXPIRY_SECONDS),
                         token_row(2, "bob", TOKEN_EXPIRY_SECONDS)}
    /\ issued = <<login_answer(1, "alice", TOKEN_EXPIRY_SECONDS),
                  login_answer(2, "bob", TOKEN_EXPIRY_SECONDS)>>

\* What a client can put in a request: no token, a token that no login
\* returned (tokens cannot be guessed), or the token of a login.
BogusToken == MaxLogins + 3

Presentable ==
    {NoToken, BogusToken} \cup {issued[i].token : i \in DOMAIN issued}

\* The first n calls of POST /login.
Logins(n) ==
    /\ Len(issued) < n
    /\ \E username \in Users \cup {NoUser}, is_str \in BOOLEAN :
          login_user(username, is_str)

Handlers(cs, sts) ==
    \/ \E c \in cs, token \in Presentable : websocket_endpoint(c, token)
    \/ \E c \in cs, st \in sts : connect(c, st)
    \/ \E c \in cs, st \in sts : send_connected_clients(c, st)
    \/ \E c \in cs, st \in sts : deliver_queued_pings(c, st)
    \/ \E c \in cs : receive_text(c)
    \/ \E c \in cs : receive_disconnect(c)
    \/ \E c \in cs : send_pong(c)
    \/ \E c \in cs : client_close(c)

Requests(ps, oks) ==
    \/ \E p \in ps, token \in Presentable, to \in Users \cup {NoUser},
          store_ok \in oks :
          send_user_ping(p, token, to, store_ok)
    \/ \E p \in ps, store_ok \in oks : send_ping(p, store_ok)

Next ==
    \/ Handlers(Conns, {StoreOk})
    \/ Requests(Pings, {TRUE})

Spec == Init /\ [][Next]_vars

----------------------------------------------------------------------------
(* The server from its start, with the clock, the logins and the          *)
(* maintenance loop.                                                       *)

InitTime ==
    /\ Fresh
    /\ requests_per_minute = TestLimit
    /\ session_tokens = {}
    /\ issued = <<>>

NextTime ==
    \/ Logins(MaxLogins)
    \/ Handlers(1..MaxTimeConns, {StoreOk})
    \/ Requests(1..MaxTimePings, {TRUE})
    \/ perform_cleanup(TRUE)
    \/ Tick(Instants)

SpecTime == InitTime /\ [][NextTime]_vars

----------------------------------------------------------------------------
(* The same with a store that can fail in a cycle of the maintenance loop. *)
(* The loop sleeps 60 seconds between two cycles and is woken by the event *)
(* loop, so a cycle that finds the store working and has something to      *)
(* delete is eventually run.                                               *)

NextOutage ==
    \/ NextTime
    \/ perform_cleanup(FALSE)

SpecOutage == InitTime /\ [][NextOutage]_vars /\ WF_vars(perform_cleanup(TRUE))

----------------------------------------------------------------------------
(* A channel that outlives the token that opened it: two logins, one       *)
(* channel, one ping, the clock and the maintenance loop.                  *)

NextExpiry ==
    \/ Logins(MaxLoginCalls)
    \/ Handlers(1..MaxTimeConns, {StoreOk})
    \/ Requests(1..MaxExpiryPings, {TRUE})
    \/ perform_cleanup(TRUE)
    \/ Tick(Instants)

SpecExpiry == InitTime /\ [][NextExpiry]_vars

----------------------------------------------------------------------------
(* The client alone.  Its requests have timeouts and its sleeps end, so    *)
(* the steps of its loop that wait for nothing but the client itself are   *)
(* eventually taken.                                                       *)

NextClient ==
    \/ start
    \/ ensure_token
    \/ _ws_run
    \/ ws_connect
    \/ ws_recv
    \/ ws_send
    \/ backoff
    \/ stop
    \/ Tick(ClientInstants)

SpecClient ==
    InitTime /\ [][NextClient]_vars /\ WF_vars(backoff) /\ WF_vars(_ws_run)

----------------------------------------------------------------------------
(* The server with a store that can fail in any call of send_ping and of   *)
(* deliver_queued_pings.                                                   *)

NextStore ==
    \/ Handlers(1..MaxStoreConns, StoreOutcomes)
    \/ Requests(1..MaxStorePings, BOOLEAN)

SpecStore == Init /\ [][NextStore]_vars

----------------------------------------------------------------------------
(* The server with its diagnostic endpoints; the model keeps the answer of *)
(* the first diagnostic call.                                              *)

NextDiag ==
    \/ Handlers(Conns, {StoreOk})
    \/ Requests(1..MaxDiagPings, {TRUE})
    \/ health_check
    \/ root

SpecDiag == Init /\ [][NextDiag]_vars

----------------------------------------------------------------------------
(* The rate limiter alone, with the configured limit.                      *)

\* rate_limiter.check_rate_limit(username), as send_user_ping calls it.
allow(username) ==
    /\ username \in DOMAIN user_counters
       => user_counters[username].count <
             (IF username = "alice" THEN MaxCalls ELSE MaxOtherCalls)
    /\ LET rl == check_rate_limit(user_counters, requests_per_minute, username, now)
       IN  /\ user_counters' = rl.counters
           /\ allowed' = rl.ok
    /\ unswept_counters' = check_rate_limit(unswept_counters, requests_per_minute,
                                            username, now).counters
    /\ UNCHANGED <<now, requests_per_minute, session_tokens, pending_pings,
                   active_connections, ws, chan, frames, req, issued,
                   diag, cleanup_task, client>>

InitRL ==
    /\ Fresh
    /\ requests_per_minute = RATE_LIMIT_PER_MINUTE
    /\ session_tokens = {}
    /\ issued = <<>>

NextRL ==
    \/ \E username \in Users : allow(username)
    \/ perform_cleanup(TRUE)
    \/ Tick(RateInstants)

SpecRL == InitRL /\ [][NextRL]_vars

----------------------------------------------------------------------------
(* What the claims are stated in *)

\* The positions of the frames of one type on a channel.
frames_of(c, type) == {i \in DOMAIN frames[c] : frames[c][i].type = type}

\* The queued_ping frames of record id on channel c.
queued_frames(c, id) == {i \in frames_of(c, "queued_ping") : frames[c][i].id = id}

\* The requests that were answered delivered or queued.
Admitted == {p \in Pings : req[p].pc = "done" /\ req[p].status \in {200, 202}}

\* The login that returned the token, if any.
logins_of(token) ==
    {i \in DOMAIN issued : issued[i].status = 200 /\ issued[i].token = token}

\* The token was returned by a login and its expiry is not before t.
live_token(token, t) == \E i \in logins_of(token) : ~(issued[i].expiry < t)

owner(token) == issued[CHOOSE i \in logins_of(token) : TRUE].username

----------------------------------------------------------------------------
(* C1: a ping sent to an offline identity is replayed when the identity    *)
(* connects: each channel receives one queued_ping frame per undelivered   *)
(* record, in identifier order, also when connects of the same identity    *)
(* overlap.  Stated as: on every channel the identifiers of the            *)
(* queued_ping frames are strictly increasing.                             *)
C1_OneQueuedPingPerRecord ==
    \A c \in Conns : \A i, j \in frames_of(c, "queued_ping") :
        i < j => frames[c][i].id < frames[c][j].id

(* C2: a ping sent while the recipient is registered with a channel that   *)
(* accepts the write is answered delivered, and the recipient's channel    *)
(* receives exactly one ping frame for it, after the frames of the calls    *)
(* answered before it.                                                      *)
C2_LivePingInOrder ==
    [][\A p \in Pings :
          (req[p].pc = "sending" /\ req'[p].pc = "done" /\ chan[req[p].target] = "open")
          => /\ req'[p].status = 200
             /\ req'[p].result = "delivered"
             /\ frames' = [frames EXCEPT ![req[p].target] =
                              Append(@, ping_frame(req[p].from, req[p].to, req[p].ts))]
      ]_vars

\* Two calls were delivered live to one channel.
C2_Witness ==
    \E c \in Conns : \E p, q \in Admitted :
        /\ p # q
        /\ req[p].status = 200 /\ req[q].status = 200
        /\ req[p].target = c /\ req[q].target = c
        /\ Cardinality(frames_of(c, "ping")) = 2

(* C3: a pending ping record is never delivered a second time: over all    *)
(* channels, at most one queued_ping frame is ever sent for a record.      *)
C3_NeverRedelivered ==
    \A id \in DOMAIN pending_pings : \A c, d \in Conns :
        \A i \in queued_frames(c, id) : \A j \in queued_frames(d, id) :
            c = d /\ i = j

(* C4: every admitted ping request creates exactly one pending ping        *)
(* record (sender, recipient, creation time), created with the outcome of  *)
(* the live delivery attempt as its delivered flag, and nothing else       *)
(* creates a record.                                                       *)
answered(p) ==
    req[p].pc # "done" /\ req'[p].pc = "done" /\ req'[p].status \in {200, 202}

C4_OneRecordPerPing ==
    [][/\ Len(pending_pings') =
             Len(pending_pings) + Cardinality({p \in Pings : answered(p)})
       /\ \A p \in Pings :
             answered(p)
             => pending_pings' =
                   Append(pending_pings,
                          [id |-> Len(pending_pings) + 1,
                           to_username |-> req'[p].to,
                           from_username |-> owner(req'[p].token),
                           ts |-> req'[p].ts,
                           delivered |-> (req'[p].status = 200)])
      ]_vars

\* One request was delivered live and another one was queued.
C4_Witness ==
    \E p, q \in Admitted :
        /\ req[p].status = 200 /\ req[q].status = 202
        /\ \E i, j \in DOMAIN pending_pings :
              pending_pings[i].delivered /\ ~pending_pings[j].delivered

(* C5: an admitted ping request is answered 200, "delivered", targetOnline *)
(* true exactly when its live send put a frame on the target's channel,    *)
(* and 202, "queued", targetOnline false otherwise.                        *)
C5_Answer ==
    [][\A p \in Pings :
          (req[p].pc # "done" /\ req'[p].pc = "done"
              /\ req'[p].status \notin {400, 401, 429})
          => IF frames' # frames
             THEN /\ req'[p].status = 200
                  /\ req'[p].result = "delivered"
                  /\ req'[p].target_online
             ELSE /\ req'[p].status = 202
                  /\ req'[p].result = "queued"
                  /\ ~req'[p].target_online
      ]_vars

\* A request was queued because the write to the registered channel failed.
C5_Witness ==
    \E p \in Admitted :
        /\ req[p].status = 202
        /\ req[p].target # NoConn
        /\ chan[req[p].target] = "closed"

----------------------------------------------------------------------------
C7_FailsAtExpiry ==
    \A p \in Pings : \A i \in logins_of(req[p].token) :
        req[p].pc # "new"
        => IF req[p].ts < issued[i].expiry THEN req[p].from = issued[i].username
           ELSE req[p].from = NoUser

(* C7 amended: the token of a login validates to its identity at every     *)
(* time up to and including its expiry and to none at every time after it. *)
C7_ValidThroughExpiry ==
    \A p \in Pings : \A i \in logins_of(req[p].token) :
        req[p].pc # "new"
        => IF req[p].ts <= issued[i].expiry THEN req[p].from = issued[i].username
           ELSE req[p].from = NoUser

\* One token was presented at its expiry and accepted, and after it and
\* refused.
C7_Witness ==
    \E p, q \in Pings : \E i \in logins_of(req[p].token) :
        /\ req[p].pc = "done" /\ req[q].pc = "done"
        /\ req[q].token = req[p].token
        /\ req[p].ts = issued[i].expiry /\ req[p].from = issued[i].username
        /\ req[q].ts > issued[i].expiry /\ req[q].from = NoUser

\* The step is a call of check_rate_limit for u: u's counter is new or has
\* changed.
counted(u) ==
    /\ u \in DOMAIN user_counters'
    /\ u \in DOMAIN user_counters => user_counters'[u] # user_counters[u]

(* C8: with the limit of 120, the k-th call of allow in a window is        *)
(* answered true exactly when k <= 120, and every call in the window,      *)
(* rejected or not, raises the count by one: no call changes the answer    *)
(* without being counted.                                                  *)
C8_Limit ==
    [][/\ allowed' # allowed => user_counters' # user_counters
       /\ \A u \in Users :
            counted(u)
            => LET new == user_counters'[u] IN
               /\ allowed' = (new.count <= RATE_LIMIT_PER_MINUTE)
               /\ IF u \in DOMAIN user_counters
                     /\ new.window_start = user_counters[u].window_start
                  THEN new.count = user_counters[u].count + 1
                  ELSE new.count = 1
      ]_vars

\* The 121st call of a window was rejected, and so was the 122nd.
C8_Witness ==
    /\ "alice" \in DOMAIN user_counters
    /\ user_counters["alice"].count = RATE_LIMIT_PER_MINUTE + 2
    /\ ~allowed

(* C9: opening a channel with a missing, unknown or expired token closes   *)
(* it with code 1008: nobody is registered, no frame is sent, no pending   *)
(* ping is replayed or marked; the row of an expired token is deleted and  *)
(* nothing else changes.                                                   *)
C9_PolicyViolation ==
    [][\A c \in Conns :
          (ws[c].pc = "new" /\ ws'[c].pc # "new" /\ ~live_token(ws'[c].token, now))
          => /\ ws'[c].pc = "closed"
             /\ ws'[c].close = POLICY_VIOLATION
             /\ ws'[c].username = NoUser
             /\ active_connections' = active_connections
             /\ frames' = frames
             /\ pending_pings' = pending_pings
             /\ user_counters' = user_counters
             /\ session_tokens' = session_tokens \ token_rows(session_tokens, ws'[c].token)
      ]_vars

\* A channel was refused for an expired token while a ping was queued for
\* the owner of the token.
C9_Witness ==
    \E c \in Conns : \E i \in logins_of(ws[c].token) :
        /\ ws[c].pc = "closed"
        /\ ws[c].close = POLICY_VIOLATION
        /\ \E k \in DOMAIN pending_pings :
              /\ pending_pings[k].to_username = issued[i].username
              /\ ~pending_pings[k].delivered

----------------------------------------------------------------------------
\* The records addressed to the recipient of record id that were sent to it
\* already: stored as delivered, or put on a channel by a replay.
sent_to_recipient(id) ==
    {j \in DOMAIN pending_pings :
        /\ pending_pings[j].to_username = pending_pings[id].to_username
        /\ \/ pending_pings[j].delivered
           \/ \E c \in Conns : queued_frames(c, j) # {}}

(* C11: for each recipient, pings are sent in the order of their record    *)
(* identifiers, across live sends and replays: when a replay sends record  *)
(* id, no record with a greater identifier for the same recipient has been *)
(* sent before.  (A live send creates the greatest identifier so far.)     *)
C11_DeliveryInIdOrder ==
    [][\A c \in Conns :
          (Len(frames'[c]) = Len(frames[c]) + 1
              /\ frames'[c][Len(frames'[c])].type = "queued_ping")
          => \A j \in sent_to_recipient(frames'[c][Len(frames'[c])].id) :
                j <= frames'[c][Len(frames'[c])].id
      ]_vars

----------------------------------------------------------------------------
(* C12: every ping request ends with a definitive answer: delivered (200), *)
(* queued (202) or an explicit rejection (400, 401, 429); a request that   *)
(* waits for the write to the target's channel can always be resumed, and  *)
(* a failed write is answered queued, never as an error.                   *)
C12_DefinitiveAnswer ==
    [][\A p \in Pings :
          /\ req[p].pc = "sending" => ENABLED send_ping(p, TRUE)
          /\ (req[p].pc # "done" /\ req'[p].pc = "done")
             => /\ req'[p].status \in {200, 202, 400, 401, 429}
                /\ req'[p].status = 200 => req'[p].result = "delivered"
                /\ req'[p].status = 202 => req'[p].result = "queued"
                /\ (req[p].pc = "sending" /\ ~send_ok(req[p].target))
                   => req'[p].status = 202 /\ req'[p].result = "queued"
      ]_vars

\* A write to the registered channel failed: the sender was answered queued
\* and the recipient was unregistered; another request was rejected.
C12_Witness ==
    \E p \in Admitted : \E q \in Pings :
        /\ req[p].status = 202
        /\ req[p].target # NoConn
        /\ ~send_ok(req[p].target)
        /\ ~is_connected(active_connections, req[p].to)
        /\ req[q].pc = "done" /\ req[q].status = 401

----------------------------------------------------------------------------
(* C13: a login with a non-empty string identity stores exactly one new    *)
(* session token row, owned by that identity, with expiry = now + 3600,    *)
(* and returns its token with expires_in = 3600; a login with a missing,   *)
(* empty or non-string identity is answered 400 and stores nothing.        *)
C13_Login ==
    [][Len(issued') = Len(issued) + 1
       => LET a == issued'[Len(issued')] IN
          IF a.username # NoUser /\ a.is_str
          THEN /\ a.status = 200
               /\ a.expires_in = TOKEN_EXPIRY_SECONDS
               /\ token_rows(session_tokens, a.token) = {}
               /\ session_tokens' = session_tokens \cup
                     {token_row(a.token, a.username, now + TOKEN_EXPIRY_SECONDS)}
          ELSE /\ a.status = 400
               /\ session_tokens' = session_tokens
      ]_vars

\* A login made after the clock moved was given a token that a request
\* then used.
C13_Witness ==
    \E i \in DOMAIN issued : \E p \in Admitted :
        /\ issued[i].status = 200
        /\ issued[i].expiry = 2 * TOKEN_EXPIRY_SECONDS
        /\ req[p].token = issued[i].token

----------------------------------------------------------------------------
(* C14: disconnect is idempotent: for an identity that is not registered   *)
(* it leaves the registry as it is, and a second call for the same         *)
(* identity changes nothing after the first; it removes the identity and   *)
(* nobody else.                                                            *)
C14_DisconnectIdempotent ==
    \A u \in Users \cup {NoUser} :
        LET once == disconnect(active_connections, u) IN
        /\ ~is_connected(active_connections, u) => once = active_connections
        /\ disconnect(once, u) = once
        /\ ~is_connected(once, u)
        /\ \A v \in Users \ {u} :
              dict_get(once, v) = dict_get(active_connections, v)

\* A handler ran its finally clause for an identity that a failed live send
\* had unregistered already, while the other identity stayed registered.
C14_Witness ==
    \E c \in Conns : \E p \in Admitted :
        /\ req[p].status = 202
        /\ req[p].target = c
        /\ ws[c].pc = "done"
        /\ ~is_connected(active_connections, ws[c].username)
        /\ dict_len(active_connections) = 1

----------------------------------------------------------------------------
\* The presence broadcast of handler c is over in this step.
bcast_over(c) ==
    ws[c].pc \in {"accept", "bcast"} /\ ws'[c].pc \notin {"accept", "bcast"}

\* Channel c holds a presence snapshot that names username.
has_snapshot(fr, c, username) ==
    \E i \in DOMAIN fr[c] :
        /\ fr[c][i].type = "clientlist"
        /\ \E k \in DOMAIN fr[c][i].clients : fr[c][i].clients[k] = username

(* C15: every register of an identity sends a clientlist frame with the    *)
(* full list of registered identities to every registered channel, the new *)
(* one included.  Stated for the new channel: when the broadcast of a      *)
(* registration is over and the new channel is open, that channel holds a  *)
(* snapshot that names its identity.                                       *)
C15_SnapshotToNewChannel ==
    [][\A c \in Conns :
          (bcast_over(c) /\ send_ok(c))
          => has_snapshot(frames', c, ws[c].username)
      ]_vars

----------------------------------------------------------------------------
\* The pending ping records that no replay or live send has marked delivered.
undelivered == {i \in DOMAIN pending_pings : ~pending_pings[i].delivered}

(* C16: /health and /clients are read-only: a step that answers one of     *)
(* them changes no token, pending ping, registry entry or rate counter     *)
(* (nor anything else of the server); /health reports connected_users =    *)
(* the number of registered identities and queued_pings = the number of    *)
(* records with delivered = false, and /clients lists the registered       *)
(* identities.                                                             *)
C16_DiagnosticsReadOnly ==
    [][diag' # diag
       => /\ UNCHANGED <<now, requests_per_minute, user_counters, session_tokens,
                         pending_pings, active_connections, ws, chan, frames, req,
                         issued, allowed>>
          /\ diag'.kind = "health"
             => /\ diag'.status = "healthy"
                /\ diag'.connected_users =
                      Cardinality({u \in Users : is_connected(active_connections, u)})
                /\ diag'.queued_pings = Cardinality(undelivered)
          /\ diag'.kind = "clients"
             => /\ Len(diag'.usernames) = Cardinality({u \in Users :
                                              is_connected(active_connections, u)})
                /\ \A u \in Users :
                      is_connected(active_connections, u)
                      <=> \E k \in DOMAIN diag'.usernames : diag'.usernames[k] = u
      ]_vars

\* /health was answered with one connected user and one queued ping while
\* another identity had been unregistered.
C16_Witness ==
    /\ diag.kind = "health"
    /\ diag.connected_users = 1
    /\ diag.queued_pings = 1
    /\ dict_len(active_connections) = 1
    /\ Len(active_connections) = 2
    /\ Cardinality(undelivered) = 1

----------------------------------------------------------------------------
\* The channels the registry refers to.
registered_channels(conns) == {conns[i].val : i \in dict_live(conns)}

\* The channel a send of the registry that starts in this step writes to,
\* NoConn when none starts: the broadcast and send_personal_message take the
\* channel from the registry when they start the write.
send_started_by_handler(c) ==
    IF ws'[c].pc \in {"bcast", "replay"} /\ ws'[c] # ws[c] THEN ws'[c].target
    ELSE NoConn

send_started_by_request(p) ==
    IF req'[p].pc = "sending" /\ req[p].pc # "sending" THEN req'[p].target
    ELSE NoConn

(* C17: the registry holds at most one entry per identity; a register for  *)
(* an identity that is registered already replaces its channel by the new  *)
(* one, after which the registry holds no reference to the old channel and *)
(* starts no send to a channel it does not hold.                           *)
C17_OneEntryPerIdentity ==
    [][/\ \A i, j \in dict_live(active_connections') :
             active_connections'[i].key = active_connections'[j].key => i = j
       /\ \A c \in Conns :
             (ws[c].pc = "accept" /\ ws'[c].pc # "accept" /\ send_ok(c))
             => /\ dict_get(active_connections', ws[c].username) = c
                /\ dict_len(active_connections') =
                      Cardinality({u \in Users : is_connected(active_connections, u)}
                                  \cup {ws[c].username})
                /\ registered_channels(active_connections') =
                      (registered_channels(active_connections)
                          \ {dict_get(active_connections, ws[c].username)})
                      \cup {c}
       /\ \A c \in Conns :
             send_started_by_handler(c) \in
                 registered_channels(active_connections') \cup {NoConn}
       /\ \A p \in Pings :
             send_started_by_request(p) \in
                 registered_channels(active_connections') \cup {NoConn}
      ]_vars

\* An identity registered a second channel while its first one was open and
\* had received frames; the registry refers to the second channel only.
C17_Witness ==
    /\ ws[1].username = ws[2].username
    /\ ws[1].pc = "recv" /\ ws[2].pc = "recv"
    /\ chan[1] = "open"
    /\ frames[1] # <<>>
    /\ frames[2] # <<>>
    /\ registered_channels(active_connections) = {2}

----------------------------------------------------------------------------
(* C18: a send failure to one recipient does not abort the presence        *)
(* broadcast: when the write to another channel fails, the failing         *)
(* recipient is unregistered and the broadcast goes on to the remaining    *)
(* channels and completes without raising.                                 *)
C18_FailureDoesNotAbort ==
    [][\A c \in Conns :
          (ws[c].pc = "bcast" /\ ws'[c] # ws[c]
              /\ ws[c].target # c /\ ~send_ok(ws[c].target) /\ send_ok(c))
          => /\ ws'[c].pc # "failed"
             /\ ~is_connected(active_connections', ws[c].item)
      ]_vars

----------------------------------------------------------------------------
(* C19: send_personal_message returns True only if the channel accepted    *)
(* the write; on a failed write it unregisters the identity and returns    *)
(* False; for an identity that is not registered it returns False and      *)
(* changes nothing; it never raises.  Stated for its two callers: the      *)
(* answer of send_ping is delivered exactly when a frame went onto the     *)
(* channel, and a replay marks a record exactly when its frame did.        *)
C19_SendPersonalMessage ==
    [][/\ \A p \in Pings :
             (req[p].pc = "sending" /\ req'[p].pc # "sending")
             => /\ req'[p].pc = "done"
                /\ IF chan[req[p].target] = "open"
                   THEN /\ req'[p].status = 200
                        /\ frames'[req[p].target] # frames[req[p].target]
                        /\ active_connections' = active_connections
                   ELSE /\ req'[p].status = 202
                        /\ frames' = frames
                        /\ active_connections' = dict_pop(active_connections, req[p].to)
       /\ \A p \in Pings :
             (req[p].pc = "new" /\ req'[p].pc = "done" /\ req'[p].status = 202)
             => /\ ~is_connected(active_connections, req'[p].to)
                /\ frames' = frames
                /\ active_connections' = active_connections
       /\ \A c \in Conns :
             (ws[c].pc = "replay" /\ ws'[c] # ws[c])
             => LET id == Head(ws[c].list)
                    marked == id \in ws'[c].marked \/ pending_pings'[id].delivered
                IN  /\ ws'[c].pc \in {"replay", "recv"}
                    /\ IF chan[ws[c].target] = "open"
                       THEN /\ marked
                            /\ frames'[ws[c].target] # frames[ws[c].target]
                            /\ active_connections' = active_connections
                       ELSE /\ marked = pending_pings[id].delivered
                            /\ frames' = frames
                            /\ active_connections' =
                                  dict_pop(active_connections, ws[c].username)
                            /\ ws'[c].pc = "recv"
      ]_vars

\* Two pings were queued for an identity that was not registered; its
\* replay sent the first one, and the write of the second one failed: the
\* identity is unregistered and the second record is still undelivered.
C19_Witness ==
    /\ ws[1].pc = "recv" /\ ws[2].pc = "new"
    /\ chan[1] = "closed"
    /\ ~is_connected(active_connections, ws[1].username)
    /\ Len(pending_pings) = 2
    /\ \A i \in DOMAIN pending_pings : pending_pings[i].to_username = ws[1].username
    /\ \A p \in Pings : req[p].pc = "done" /\ req[p].target = NoConn
    /\ pending_pings[1].delivered /\ ~pending_pings[2].delivered
    /\ queued_frames(1, 1) # {} /\ queued_frames(1, 2) = {}

----------------------------------------------------------------------------
(* C20: no hanging registry entries: every registry entry belongs to a     *)
(* channel whose handler is still running.                                 *)
C20_NoHangingEntries ==
    \A c \in registered_channels(active_connections) :
        ws[c].pc \in {"bcast", "replay", "recv", "pong"}

----------------------------------------------------------------------------
(* C21: on connect the replay pass completes before the receive loop       *)
(* starts: a handler that has read an inbound frame has left the replay    *)
(* with no record of its backlog left to attempt.                          *)
C21_ReplayBeforeReceive ==
    \A c \in Conns :
        ws[c].inbound > 0
        => /\ ws[c].pc \in {"recv", "pong", "done"}
           /\ ws[c].list = <<>>
           /\ ws[c].marked = {}

\* A channel received its backlog of two records and then the reply to its
\* first inbound frame.
C21_Witness ==
    \E c \in Conns :
        /\ ws[c].inbound = 1
        /\ \E i \in queued_frames(c, 1) : \E j \in queued_frames(c, 2) :
              \E k \in frames_of(c, "pong") : i < j /\ j < k

----------------------------------------------------------------------------
(* C22: in one replay pass a delivery failure for one record does not      *)
(* abort the pass: the handler goes on with the remaining records of its   *)
(* selection, which are in identifier order and hold each record once; the *)
(* record whose send failed is not marked and keeps its delivered flag;    *)
(* the records sent before it are committed as delivered when the pass     *)
(* ends.                                                                   *)
C22_FailureDoesNotAbortReplay ==
    [][\A c \in Conns :
          /\ \A i, j \in DOMAIN ws'[c].list :
                i < j => ws'[c].list[i] < ws'[c].list[j]
          /\ (ws[c].pc = "replay" /\ ws'[c] # ws[c] /\ ~send_ok(ws[c].target))
             => LET id == Head(ws[c].list) IN
                /\ id \notin ws'[c].marked
                /\ pending_pings'[id].delivered = pending_pings[id].delivered
                /\ \/ /\ ws'[c].pc = "replay"
                      /\ ws'[c].list = Tail(ws[c].list)
                      /\ ws'[c].marked = ws[c].marked
                      /\ pending_pings' = pending_pings
                   \/ /\ ws'[c].pc = "recv"
                      /\ \A i \in ws[c].marked : pending_pings'[i].delivered
      ]_vars

\* The first channel of an identity received record 1, the write of record
\* 2 failed, and the next connect of the identity has selected record 2.
C22_Witness ==
    /\ ws[1].pc = "recv" /\ chan[1] = "closed"
    /\ ws[2].pc = "replay" /\ ws[2].username = ws[1].username
    /\ ws[2].list = <<2>>
    /\ pending_pings[1].delivered
    /\ queued_frames(1, 1) # {} /\ queued_frames(2, 1) = {}
    /\ \A c \in Conns : queued_frames(c, 2) = {}
    /\ \A p \in Pings : req[p].pc = "done" /\ req[p].target = NoConn

----------------------------------------------------------------------------
(* C23: the delivered flag of a pending ping record only changes from      *)
(* false to true, and a record is delivered only once a frame for it was   *)
(* put on a channel: a queued_ping frame with its identifier, or, for a    *)
(* record created as delivered, the ping frame of its live send.  No       *)
(* record is deleted or otherwise changed, and identifiers increase in     *)
(* creation order.                                                         *)
C23_DeliveredFlag ==
    [][/\ Len(pending_pings') >= Len(pending_pings)
       /\ \A i \in DOMAIN pending_pings' : pending_pings'[i].id = i
       /\ \A i \in DOMAIN pending_pings :
             /\ pending_pings'[i] =
                   [pending_pings[i] EXCEPT !.delivered = pending_pings'[i].delivered]
             /\ pending_pings[i].delivered => pending_pings'[i].delivered
             /\ pending_pings'[i].delivered
                => \/ pending_pings[i].delivered
                   \/ \E c \in Conns : \E k \in DOMAIN frames'[c] :
                         frames'[c][k] = queued_ping_frame(pending_pings[i])
       /\ \A i \in DOMAIN pending_pings' \ DOMAIN pending_pings :
             pending_pings'[i].delivered
             => \E c \in Conns :
                   frames'[c] = Append(frames[c],
                                       ping_frame(pending_pings'[i].from_username,
                                                  pending_pings'[i].to_username,
                                                  pending_pings'[i].ts))
      ]_vars

\* One record was delivered by a replay and another one by its live send.
C23_Witness ==
    \E i, j \in DOMAIN pending_pings : \E c \in Conns : \E p \in Admitted :
        /\ i # j
        /\ pending_pings[i].delivered /\ pending_pings[j].delivered
        /\ queued_frames(c, i) # {}
        /\ \A d \in Conns : queued_frames(d, j) = {}
        /\ req[p].status = 200
        /\ frames_of(req[p].target, "ping") # {}

----------------------------------------------------------------------------
\* A step of the maintenance loop (or one that changes nothing): no
\* handler, request, login or clock step.
maintenance_step ==
    UNCHANGED <<now, requests_per_minute, pending_pings, active_connections, ws,
                chan, frames, req, issued, allowed, diag, cleanup_task,
                   unswept_counters, client>>

(* C24: validate_token on an expired token deletes the token's row and     *)
(* returns none; the lazy deletion and the sweep of the maintenance loop   *)
(* do not conflict: a request whose expired token was swept before is      *)
(* refused and changes nothing, a sweep after a lazy deletion leaves the   *)
(* remaining rows as they are, and no step deletes a row whose expiry is   *)
(* not before now.                                                         *)
C24_LazyEvictionAndSweep ==
    [][/\ \A r \in session_tokens \ session_tokens' : r.expiry < now
       /\ \A p \in Pings :
             (req[p].pc = "new" /\ req'[p].pc # "new"
                 /\ logins_of(req'[p].token) # {}
                 /\ ~live_token(req'[p].token, now))
             => /\ req'[p].pc = "done" /\ req'[p].status = 401
                /\ session_tokens' =
                      {r \in session_tokens : r.token # req'[p].token}
       /\ maintenance_step
          => session_tokens' = {r \in session_tokens : r.expiry >= now}
      ]_vars

\* Two requests presented the same expired token and were refused; its row
\* is gone.
C24_Witness ==
    \E p, q \in Pings : \E i \in logins_of(req[p].token) :
        /\ p # q
        /\ req[q].token = req[p].token
        /\ req[p].pc = "done" /\ req[p].status = 401
        /\ req[q].pc = "done" /\ req[q].status = 401
        /\ issued[i].expiry < now
        /\ session_tokens = {}

----------------------------------------------------------------------------
(* C25: a call of check_rate_limit made more than 60 seconds after the     *)
(* window start sets the count to 1 and the window start to now and        *)
(* returns true; every other call raises the count by exactly 1 and leaves *)
(* the window start as it is (a first call starts a window at now with     *)
(* count 1); an elapsed time of exactly 60 seconds does not reset.         *)
C25_Window ==
    [][\A u \in Users :
          counted(u)
          => LET new == user_counters'[u]
                 old == IF u \in DOMAIN user_counters THEN user_counters[u]
                        ELSE [count |-> 0, window_start |-> now]
             IN  IF now - old.window_start > WINDOW_SECONDS
                 THEN new = [count |-> 1, window_start |-> now] /\ allowed'
                 ELSE new = [count |-> old.count + 1,
                             window_start |-> old.window_start]
      ]_vars

\* A window that started at 0 is still counting 60 seconds later, and has
\* gone past the limit.
C25_Witness ==
    /\ now = WINDOW_SECONDS
    /\ "alice" \in DOMAIN user_counters
    /\ user_counters["alice"].window_start = 0
    /\ user_counters["alice"].count = RATE_LIMIT_PER_MINUTE + 1
    /\ ~allowed

----------------------------------------------------------------------------
\* A cycle of the maintenance loop that changed something: the only steps
\* that touch neither the clock nor a handler, a request or a login.
cycle_step ==
    /\ UNCHANGED <<now, ws, chan, req, issued, diag>>
    /\ <<session_tokens, user_counters>>' # <<session_tokens, user_counters>>

(* C26: a cycle of the maintenance loop deletes every session token whose  *)
(* expiry is before now and no other token, and changes no pending ping    *)
(* record, no registry entry and no channel; besides the tokens it changes *)
(* only the rate counters, by their sweep.                                 *)
C26_CycleFrame ==
    [][cycle_step
       => /\ session_tokens' = {r \in session_tokens : r.expiry >= now}
          /\ pending_pings' = pending_pings
          /\ active_connections' = active_connections
          /\ frames' = frames
          /\ \A u \in DOMAIN user_counters' :
                u \in DOMAIN user_counters /\ user_counters'[u] = user_counters[u]
      ]_vars

\* The token of a registered identity expired and was deleted by a cycle,
\* not by a presentation of the token; the registry entry and a pending
\* ping are still there.
C26_Witness ==
    \E i \in DOMAIN issued :
        /\ issued[i].status = 200 /\ issued[i].expiry < now
        /\ session_tokens = {}
        /\ \A p \in Pings : req[p].pc = "done" /\ req[p].status \in {200, 202}
        /\ ws[1].pc = "recv"
        /\ is_connected(active_connections, issued[i].username)
        /\ undelivered # {}

----------------------------------------------------------------------------
\* Token t has a row whose expiry is before now.
expired_row(t) == \E r \in token_rows(session_tokens, t) : r.expiry < now

(* C27: the maintenance loop has no terminal state: a cycle whose store    *)
(* step fails leaves the tokens as they are, still sweeps the rate         *)
(* counters, and the task stays alive; and every expired token is          *)
(* eventually deleted once a cycle finds the store working.                *)
C27_LoopSurvives ==
    /\ [](cleanup_task = "running")
    /\ [][cycle_step
          => /\ user_counters' = cleanup_old_counters(user_counters, now)
             /\ \/ session_tokens' = session_tokens
                \/ session_tokens' = {r \in session_tokens : r.expiry >= now}
       ]_vars
    /\ \A t \in 1..MaxLogins :
          expired_row(t) ~> (token_rows(session_tokens, t) = {})

\* A cycle whose store step failed swept a stale rate counter and left the
\* expired token in the store.
C27_Witness ==
    /\ \E t \in 1..MaxLogins : expired_row(t)
    /\ user_counters = <<>>
    /\ \E p \in Admitted : TRUE
    /\ cleanup_task = "running"

----------------------------------------------------------------------------
(* C28: the sweep of the rate limiter removes every counter whose window   *)
(* started more than 3600 seconds ago and leaves every other counter as it *)
(* is: in a step that removes a counter, exactly the counters older than   *)
(* 3600 seconds go, and no other step removes one.                         *)
C28_Sweep ==
    [][(DOMAIN user_counters \ DOMAIN user_counters' # {})
       => \A u \in DOMAIN user_counters :
             IF now - user_counters[u].window_start > STALE_SECONDS
             THEN u \notin DOMAIN user_counters'
             ELSE u \in DOMAIN user_counters' /\ user_counters'[u] = user_counters[u]
      ]_vars

\* alice's counter, which had gone past the limit in a window started at 0,
\* was swept at 3601; bob's, started at 60, was kept.
C28_Witness ==
    /\ now = STALE_SECONDS + 1
    /\ DOMAIN user_counters = {"bob"}
    /\ user_counters["bob"].window_start = WINDOW_SECONDS
    /\ ~allowed

----------------------------------------------------------------------------
\* The clientlist frames of channel c, in a given assignment of frames.
snapshots(fr, c) == {i \in DOMAIN fr[c] : fr[c][i].type = "clientlist"}

(* C29: presence snapshots are sent only on registration: a clientlist     *)
(* frame is put on a channel only by the broadcast of a handler that is    *)
(* registering, and a step that unregisters an identity puts no clientlist *)
(* frame on any channel.                                                   *)
C29_SnapshotOnlyOnRegistration ==
    [][/\ \A c \in Conns :
             snapshots(frames', c) # snapshots(frames, c)
             => \E d \in Conns :
                   ws[d].pc = "bcast" /\ ws[d].target = c /\ ws'[d] # ws[d]
       /\ (\E u \in Users : /\ is_connected(active_connections, u)
                            /\ ~is_connected(active_connections', u))
          => \A c \in Conns : snapshots(frames', c) = snapshots(frames, c)
      ]_vars

\* The last snapshot an open channel holds lists an identity whose handler
\* has ended and which is no longer registered.
C29_Witness ==
    \E c, d \in Conns :
        /\ ws[c].pc = "recv" /\ chan[c] = "open"
        /\ ws[d].pc = "done"
        /\ ~is_connected(active_connections, ws[d].username)
        /\ snapshots(frames, c) # {}
        /\ LET last == CHOOSE i \in snapshots(frames, c) :
                          \A j \in snapshots(frames, c) : j <= i
           IN  \E k \in DOMAIN frames[c][last].clients :
                  frames[c][last].clients[k] = ws[d].username

----------------------------------------------------------------------------
(* C30: a store failure in send_ping or in deliver_queued_pings does not   *)
(* propagate: a request that ends is never answered with a server error,   *)
(* and a handler that is replaying its queue does not end with an error.   *)
C30_StoreFailureRecovered ==
    [][/\ \A p \in Pings :
             req[p].pc # "done" /\ req'[p].pc = "done" => req'[p].status # 500
       /\ \A c \in Conns :
             ws[c].pc = "replay" => ws'[c].pc # "failed"]_vars

----------------------------------------------------------------------------
(* C31: when channel d of an identity has been superseded by a newer        *)
(* channel c of the same identity, the end of d's handler, or the failure   *)
(* of a live send that was started on d, leaves c's entry in the registry.  *)
running(h) == h.pc \in {"bcast", "replay", "recv", "pong"}

\* Channel c holds the registry entry of the identity that d registered before.
superseded(d, c) ==
    /\ c # d
    /\ ws[d].username # NoUser
    /\ ws[c].username = ws[d].username
    /\ running(ws[c])
    /\ dict_get(active_connections, ws[c].username) = c

handler_ends(d) == running(ws[d]) /\ ws'[d].pc \in {"done", "failed"}

send_fails_on(d) ==
    \E p \in Pings : /\ req[p].pc = "sending" /\ req'[p].pc = "done"
                     /\ req[p].target = d /\ ~send_ok(d)

C31_SupersededCloseKeepsNewer ==
    [][\A c, d \in Conns :
          superseded(d, c) /\ (handler_ends(d) \/ send_fails_on(d))
          => dict_get(active_connections', ws[c].username) = c]_vars

----------------------------------------------------------------------------
(* C32: a registration or unregistration that happens while a presence     *)
(* broadcast is suspended in a channel write does not make the broadcast   *)
(* fail: when the write succeeds and the broadcast resumes over a registry *)
(* whose size has changed, the handler does not end with an error, and its *)
(* identity is not left registered with a handler that has ended.          *)
registry_changed_under(c) == dict_len(active_connections) # ws[c].it.used

C32_BroadcastSurvivesRegistryChange ==
    [][\A c \in Conns :
          (ws[c].pc = "bcast" /\ ws'[c] # ws[c] /\ send_ok(ws[c].target)
              /\ send_ok(c) /\ registry_changed_under(c))
          => /\ ws'[c].pc # "failed"
             /\ dict_get(active_connections', ws[c].username) = c
                => running(ws'[c])
      ]_vars

----------------------------------------------------------------------------
(* C33: whenever a handler is in its receive loop with its channel open,   *)
(* its identity is registered, so that pings to it are attempted live.     *)
C33_ReceivingIsRegistered ==
    \A c \in Conns :
        (ws[c].pc = "recv" /\ chan[c] = "open")
        => is_connected(active_connections, ws[c].username)

----------------------------------------------------------------------------
(* C34: a rejected ping request has no delivery effect: a request answered *)
(* 401, 400 or 429 creates no pending ping record and sends no frame, and  *)
(* a request answered 401 or 400 leaves the rate counters unchanged.       *)
rejected(p, statuses) ==
    req[p].pc # "done" /\ req'[p].pc = "done" /\ req'[p].status \in statuses

C34_RejectedHasNoEffect ==
    [][\A p \in Pings :
          /\ rejected(p, {400, 401, 429})
             => /\ pending_pings' = pending_pings
                /\ frames' = frames
                /\ active_connections' = active_connections
          /\ rejected(p, {400, 401})
             => user_counters' = user_counters /\ allowed' = allowed
      ]_vars

\* A sender was rejected by the limiter after one delivered ping, with the
\* recipient still online: one record and one ping frame exist.
C34_Witness ==
    \E p, q \in Pings :
        /\ req[q].pc = "done" /\ req[q].status = 200
        /\ req[p].pc = "done" /\ req[p].status = 429
        /\ is_connected(active_connections, req[p].to)
        /\ chan[dict_get(active_connections, req[p].to)] = "open"
        /\ Len(pending_pings) = 1
        /\ \A c \in Conns : Cardinality(frames_of(c, "ping")) <= 1
        /\ user_counters # <<>>

----------------------------------------------------------------------------
(* C35: login never invalidates earlier tokens: a login removes no row of  *)
(* the token store; a token that has not expired validates to its identity *)
(* whatever logins of that identity came after it; and the store holds at  *)
(* most one row per token value.                                           *)
later_login(i) ==
    \E j \in DOMAIN issued :
        j > i /\ issued[j].status = 200 /\ issued[j].username = issued[i].username

C35_LoginKeepsEarlierTokens ==
    [][/\ issued' # issued => session_tokens \subseteq session_tokens'
       /\ \A p \in Pings : \A i \in logins_of(req'[p].token) :
             (req[p].pc = "new" /\ req'[p].pc # "new" /\ later_login(i)
                 /\ ~(issued[i].expiry < now))
             => req'[p].from = issued[i].username
       /\ \A r1, r2 \in session_tokens' : r1.token = r2.token => r1 = r2
      ]_vars

\* alice logged in twice, and a request that presented her first token
\* after the second login was accepted as hers, both rows being stored.
C35_Witness ==
    \E p \in Pings : \E i, j \in DOMAIN issued :
        /\ i < j
        /\ issued[i].status = 200 /\ issued[j].status = 200
        /\ issued[i].username = issued[j].username
        /\ req[p].pc = "done" /\ req[p].token = issued[i].token
        /\ req[p].ts > issued[j].expiry - TOKEN_EXPIRY_SECONDS
        /\ req[p].from = issued[i].username
        /\ req[p].status \in {200, 202}
        /\ Cardinality(session_tokens) = 2

----------------------------------------------------------------------------
(* C36: the token is checked only when the channel is opened: a step in    *)
(* which the token of a running channel expires or is deleted (by a        *)
(* validation or by the maintenance loop) leaves the registry and that     *)
(* channel and its handler as they are, and a ping sent afterwards to the  *)
(* identity is delivered live on that channel.                             *)
token_stored(tokens, c) == token_rows(tokens, ws[c].token) # {}

token_expired(c, t) == \E i \in logins_of(ws[c].token) : issued[i].expiry < t

C36_TokenCheckedAtOpenOnly ==
    [][/\ \A c \in Conns :
             (running(ws[c])
                 /\ \/ token_stored(session_tokens, c)
                       /\ ~token_stored(session_tokens', c)
                    \/ ~token_expired(c, now) /\ token_expired(c, now'))
             => /\ active_connections' = active_connections
                /\ chan'[c] = chan[c]
                /\ ws'[c] = ws[c]
                /\ frames'[c] = frames[c]
       /\ \A p \in Pings :
             (req[p].pc = "sending" /\ req'[p].pc = "done"
                 /\ chan[req[p].target] = "open"
                 /\ ~token_stored(session_tokens, req[p].target)
                 /\ token_expired(req[p].target, req[p].ts))
             => /\ req'[p].status = 200
                /\ frames'[req[p].target] =
                      Append(frames[req[p].target],
                             ping_frame(req[p].from, req[p].to, req[p].ts))
                /\ active_connections' = active_connections
      ]_vars

\* The token that opened a channel has expired and its row is deleted; the
\* handler is in its receive loop, the identity is registered with this
\* channel, and a ping sent after the expiry has arrived on it.
C36_Witness ==
    \E c \in Conns : \E p \in Pings :
        /\ ws[c].pc = "recv" /\ chan[c] = "open"
        /\ token_expired(c, now)
        /\ ~token_stored(session_tokens, c)
        /\ dict_get(active_connections, ws[c].username) = c
        /\ req[p].pc = "done" /\ req[p].status = 200 /\ req[p].target = c
        /\ token_expired(c, req[p].ts)
        /\ \E k \in frames_of(c, "ping") : frames[c][k].ts = req[p].ts

----------------------------------------------------------------------------
(* C37: the sweep of the rate limiter is invisible to callers: every call  *)
(* of check_rate_limit returns what it would return had no sweep ever run  *)
(* (unswept_counters is the limiter of the same calls without the sweeps). *)
C37_SweepInvisible ==
    [][\A u \in Users :
          counted(u)
          => allowed' = check_rate_limit(unswept_counters, requests_per_minute,
                                         u, now).ok
      ]_vars

\* alice was rejected in a window that started more than an hour ago, the
\* sweep has removed her counter, and her next call is accepted both by the
\* swept limiter and by the one that was never swept.
C37_Witness ==
    /\ "alice" \notin DOMAIN user_counters
    /\ "alice" \in DOMAIN unswept_counters
    /\ unswept_counters["alice"].count > requests_per_minute
    /\ now - unswept_counters["alice"].window_start > STALE_SECONDS
    /\ check_rate_limit(user_counters, requests_per_minute, "alice", now).ok
    /\ check_rate_limit(unswept_counters, requests_per_minute, "alice", now).ok

----------------------------------------------------------------------------
(* C38: in the client's channel loop every loss of the channel is          *)
(* signalled with ws_disconnected before the next ws_connected: no two     *)
(* ws_connected signals follow each other.                                 *)
C38_DisconnectedBeforeConnected ==
    \A i \in DOMAIN client.signals :
        (i > 1 /\ client.signals[i] = "ws_connected")
        => client.signals[i - 1] = "ws_disconnected"

----------------------------------------------------------------------------
(* C39: while stop() has not been called the client never gives up         *)
(* reconnecting: its loop ends only when stopped; after a failed login, a  *)
(* failed connect, an error or a close of the channel it eventually makes  *)
(* another attempt (a login request or a connect); and the attempt counter *)
(* of the backoff is 0 after every successful connect.                     *)
C39_NeverGivesUp ==
    /\ [](client.pc = "stopped" => client.stop)
    /\ (client.pc \in {"sleep", "top"} /\ ~client.stop)
          ~> (client.stop \/ client.pc \in {"login", "connect"})
    /\ [][(client.pc = "connect" /\ client'.pc \in {"recv", "top"})
          => client'.attempt = 0]_vars

\* After two failures in a row the client has connected again: it was
\* shown disconnected, is now connected and receiving, and the backoff
\* counter is back at 0.
C39_Witness ==
    /\ client.pc = "recv"
    /\ ~client.stop
    /\ client.attempt = 0
    /\ client.signals = <<"ws_disconnected", "ws_connected">>

----------------------------------------------------------------------------
(* C40: ensure_token performs no login while the client holds a token that *)
(* has not reached its local expiry, and logs in otherwise; it makes at    *)
(* most 4 login attempts, returns after the first successful one with the  *)
(* new token and its expiry, and when it raises, as it does when the       *)
(* fourth attempt fails like the three before it, the old token is         *)
(* unchanged.                                                              *)
holds_token == client.token # NoToken /\ now < client.token_expiry

token_unchanged ==
    client'.token = client.token /\ client'.token_expiry = client.token_expiry

\* A step of the client's own code, not the call of stop() by the GUI.
loop_step == client' # client /\ client' # [client EXCEPT !.stop = TRUE]

C40_EnsureToken ==
    [][/\ client.tries \in 0..(LOGIN_ATTEMPTS - 1)
       /\ (client.pc \in {"idle", "top"} /\ loop_step /\ client'.pc # "stopped")
          => /\ token_unchanged
             /\ IF holds_token THEN client'.pc \in {"connect", "top"}
                ELSE client'.pc = "login" /\ client'.tries = 0
       /\ (client.pc = "login" /\ loop_step)
          => \/ /\ client'.pc = "login"
                /\ client'.tries = client.tries + 1
                /\ token_unchanged
             \/ /\ client'.pc \in {"connect", "top"}
                /\ client'.token \in ClientTokens
                /\ client'.token_expiry = now + TOKEN_EXPIRY_SECONDS - EXPIRY_MARGIN
             \/ /\ client'.pc \in {"sleep", "top"}
                /\ token_unchanged
       /\ (client.pc = "login" /\ client.caller = "ws" /\ client'.pc = "connect")
          => client'.token_expiry = now + TOKEN_EXPIRY_SECONDS - EXPIRY_MARGIN
       /\ client.pc # "login" => token_unchanged
      ]_vars

\* The client holds a token that has reached its local expiry, and three
\* login attempts of the call of ensure_token in its loop have failed: the
\* fourth is under way.
C40_Witness ==
    /\ client.pc = "login" /\ client.caller = "ws"
    /\ client.tries = LOGIN_ATTEMPTS - 1
    /\ client.token # NoToken
    /\ now >= client.token_expiry

====
